---- MODULE Spec2Model ----
(***************************************************************************)
(* The operator node of the multi-prover AVS: the log tracer's scan cycle  *)
(* driving Operator.GetBlock / SaveBlock / OnNewLog, Operator.Start and    *)
(* the attestation renewal loop of RegisterAttestationReport.              *)
(*                                                                         *)
(* Two operators are modelled, as the repository holds two:                *)
(*   "full"   - the operator with the offset file, SkipOnError: true and   *)
(*              the renewal goroutine;                                     *)
(*   "legacy" - operator/operator.go: GetBlock returns 0, SaveBlock        *)
(*              stores nothing, no SkipOnError, no renewal goroutine.      *)
(* The LogTracer itself (NewLogTracer, Run) is not among the sources; its  *)
(* cycle is modelled from section 4.1 of the specification.                *)
(*                                                                         *)
(* Spec is the whole node.  HandlerSpec is one OnNewLog call on its own,   *)
(* RecordSpec the offset record on its own, RenewSpec the start-up and the *)
(* renewal goroutine under fairness, LapseSpec the same with registrations *)
(* that always succeed.                                                    *)
(***************************************************************************)
EXTENDS Integers, Sequences, FiniteSets, TLC

\* ------------------------------------------------------------ bounds
\* number of chain-head observations a behaviour walks through
MaxHeadIdx == 3
\* crashes followed by a restart of the process
MaxRestarts == 1
\* the clock (seconds) is not advanced by a call's duration beyond this
MaxNow == 2800
\* the longest a sleep overshoots its duration, in seconds
MaxOvershoot == 50

\* ------------------------------------------------------------ program constants
\* Wait configured as one block more
WaitSix == 5 + 1

\* LogTracerConfig.Wait: blocks withheld below the chain head
Wait == 5
\* a margin of 100 seconds
RenewMarginShort == 300 - 200

\* LogTracerConfig.Max: blocks per scan window
Max == 100
\* data := make([]byte, 16) in GetBlock
ReadWindow == 16
\* the 300 seconds of checkNext
RenewMargin == 300

Min(a, b) == IF a < b THEN a ELSE b

\* ------------------------------------------------------------ the offset record
\* bytes are their ASCII codes: '0'..'9' are 48..57
RECURSIVE FormatUint(_)
FormatUint(n) ==
    IF n < 10 THEN <<48 + n>>
    ELSE Append(FormatUint(n \div 10), 48 + (n % 10))

\* the cutset "\x00\r\n " of bytes.Trim
CutSet == {0, 13, 10, 32}

RECURSIVE TrimLeft(_)
TrimLeft(s) ==
    IF Len(s) > 0 /\ s[1] \in CutSet THEN TrimLeft(Tail(s)) ELSE s

RECURSIVE TrimRight(_)
TrimRight(s) ==
    IF Len(s) > 0 /\ s[Len(s)] \in CutSet
    THEN TrimRight(SubSeq(s, 1, Len(s) - 1)) ELSE s

Trim(s) == TrimRight(TrimLeft(s))

RECURSIVE DigitsValue(_)
DigitsValue(s) ==
    IF Len(s) = 0 THEN 0
    ELSE 10 * DigitsValue(SubSeq(s, 1, Len(s) - 1)) + (s[Len(s)] - 48)

\* strconv.ParseInt(s, 10, 64): an optional sign, then decimal digits only.
\* Its range error cannot occur here: GetBlock hands it at most 16 bytes, and
\* every number of 16 digits is within int64.
ParseInt(s) ==
    LET signed == Len(s) > 0 /\ s[1] \in {43, 45}
        neg == Len(s) > 0 /\ s[1] = 45
        body == IF signed THEN Tail(s) ELSE s
    IN  IF Len(body) = 0 \/ \E i \in 1..Len(body) : body[i] \notin 48..57
        THEN [err |-> TRUE, val |-> 0]
        ELSE [err |-> FALSE,
              val |-> IF neg THEN 0 - DigitsValue(body) ELSE DigitsValue(body)]

\* GetBlock that returns the EOF of an empty record as an error
GetBlockEofIsError(f) ==
    LET n == Min(ReadWindow, Len(f))
    IN  IF n = 0 THEN [err |-> TRUE, block |-> 0, wrapped |-> FALSE]
        ELSE LET p == ParseInt(Trim(SubSeq(f, 1, n)))
             IN  IF p.err THEN [err |-> TRUE, block |-> 0, wrapped |-> FALSE]
                 ELSE [err |-> FALSE, block |-> p.val, wrapped |-> p.val < 0]

\* Operator.GetBlock: ReadAt(data[0:16], 0); n = 0 at EOF is block 0;
\* otherwise the trimmed bytes parsed as a decimal int64 and converted to
\* uint64. A negative number -v converts to 2^64 - v, beyond TLC's integers:
\* block keeps -v and wrapped says so.
GetBlock(f) ==
    LET n == Min(ReadWindow, Len(f))
    IN  IF n = 0 THEN [err |-> FALSE, block |-> 0, wrapped |-> FALSE]
        ELSE LET p == ParseInt(Trim(SubSeq(f, 1, n)))
             IN  IF p.err THEN [err |-> TRUE, block |-> 0, wrapped |-> FALSE]
                 ELSE [err |-> FALSE, block |-> p.val, wrapped |-> p.val < 0]

\* SaveBlock that writes at the end of the file (Write for WriteAt(.., 0))
SaveBlockAppends(f, n) == f \o FormatUint(n)

\* SaveBlock that stores the block after the target
SaveBlockNextBlock(f, n) ==
    LET data == FormatUint(n + 1)
    IN  data \o SubSeq(f, Len(data) + 1, Len(f))

\* Operator.SaveBlock: WriteAt(FormatUint(offset), 0); the bytes of the record
\* beyond the written ones stay (no truncation)
SaveBlock(f, n) ==
    LET data == FormatUint(n)
    IN  data \o SubSeq(f, Len(data) + 1, Len(f))

\* operator/operator.go: GetBlock returns 0, nil
LegacyGetBlock == [err |-> FALSE, block |-> 0, wrapped |-> FALSE]

\* operator/operator.go: SaveBlock returns nil and stores nothing
LegacySaveBlock(f, n) == f

\* ------------------------------------------------------------ the chain
\* the chain heads a behaviour observes, in order; beyond the listed ones the
\* head keeps growing
Heads == <<3, 110, 160, 215>>
HeadAt(i) == IF i <= Len(Heads) THEN Heads[i]
             ELSE Heads[Len(Heads)] + 60 * (i - Len(Heads))

\* the logs on the chain that match the filter (topics, addresses): two of
\* them in one block, one in the block after a window's last
ChainLogs == { [block |-> 100, index |-> 0], [block |-> 100, index |-> 1],
               [block |-> 101, index |-> 0], [block |-> 155, index |-> 0] }

\* within a block, the later log first
LogBeforeIndexDescending(a, b) ==
    a.block < b.block \/ (a.block = b.block /\ a.index > b.index)

\* ascending (block, index)
LogBefore(a, b) ==
    a.block < b.block \/ (a.block = b.block /\ a.index < b.index)

RECURSIVE SortLogs(_)
SortLogs(S) ==
    IF S = {} THEN <<>>
    ELSE LET first == CHOOSE a \in S : \A b \in S \ {a} : LogBefore(a, b)
         IN  <<first>> \o SortLogs(S \ {first})

\* ------------------------------------------------------------ the handler
\* what the remote calls of one OnNewLog answer: the chain-head header fetch,
\* the task fetcher's source (simulation), the prover (live), the aggregator
RpcOutcomes(sim) ==
    [ header : {"ok", "unreachable"},
      source : IF sim THEN {"ok", "unreachable"} ELSE {"ok"},
      prover : IF sim THEN {"ok"} ELSE {"ok", "skip", "unreachable"},
      submit : {"ok", "reject", "unreachable"} ]

\* Operator.proverGetPoe: simulation builds the proof from the source chain
\* and never skips; live returns what the prover client returns
proverGetPoe(sim, rpc) ==
    IF sim
    THEN IF rpc.source = "unreachable"
         THEN [poe |-> FALSE, skip |-> FALSE, err |-> TRUE]
         ELSE [poe |-> TRUE, skip |-> FALSE, err |-> FALSE]
    ELSE IF rpc.prover = "unreachable"
         THEN [poe |-> FALSE, skip |-> FALSE, err |-> TRUE]
         ELSE [poe |-> rpc.prover = "ok", skip |-> rpc.prover = "skip",
               err |-> FALSE]

\* what one handler call did: err (returned an error), built (a state header
\* was built), sent (SubmitTask was called), skip (the prover said skip),
\* transport (the error is an unreachable RPC)
Ret(err, built, sent, skip, transport) ==
    [err |-> err, built |-> built, sent |-> sent, skip |-> skip,
     transport |-> transport]

\* OnNewLog without its `if skip { return nil }`
OnNewLogIgnoresSkip(sim, rpc) ==
    IF rpc.header = "unreachable" THEN Ret(TRUE, FALSE, FALSE, FALSE, TRUE)
    ELSE LET p == proverGetPoe(sim, rpc)
         IN  IF p.err THEN Ret(TRUE, FALSE, FALSE, FALSE, TRUE)
             ELSE IF rpc.submit # "ok"
                  THEN Ret(TRUE, TRUE, TRUE, p.skip, rpc.submit = "unreachable")
                  ELSE Ret(FALSE, TRUE, TRUE, p.skip, FALSE)

\* Operator.OnNewLog
OnNewLog(sim, rpc) ==
    IF rpc.header = "unreachable" THEN Ret(TRUE, FALSE, FALSE, FALSE, TRUE)
    ELSE LET p == proverGetPoe(sim, rpc)
         IN  IF p.err THEN Ret(TRUE, FALSE, FALSE, FALSE, TRUE)
             ELSE IF p.skip THEN Ret(FALSE, FALSE, FALSE, TRUE, FALSE)
             ELSE IF rpc.submit # "ok"
                  THEN Ret(TRUE, TRUE, TRUE, FALSE, rpc.submit = "unreachable")
                  ELSE Ret(FALSE, TRUE, TRUE, FALSE, FALSE)

\* operator/operator.go OnNewLog: no header fetch, no skip result
LegacyOnNewLog(rpc) ==
    IF rpc.prover = "unreachable" THEN Ret(TRUE, FALSE, FALSE, FALSE, TRUE)
    ELSE IF rpc.submit # "ok"
         THEN Ret(TRUE, TRUE, TRUE, FALSE, rpc.submit = "unreachable")
         ELSE Ret(FALSE, TRUE, TRUE, FALSE, FALSE)

LegacyRpcOutcomes ==
    [ header : {"ok"}, source : {"ok"}, prover : {"ok", "unreachable"},
      submit : {"ok", "reject", "unreachable"} ]

\* SkipOnError left out of the full operator's LogTracerConfig
SkipOnErrorUnset(v) == FALSE

\* LogTracerConfig.SkipOnError: true in the full operator, not set in
\* operator/operator.go
SkipOnError(v) == v = "full"

\* ------------------------------------------------------------ the proof and the header
\* bounds of the committed batches a handler call is given
MaxChunks == 2
MaxEntries == 2

\* the stride of an entry of a chunk: chunk[1:][i*60 : i*60+8]
EntrySize == 60

RECURSIVE Zeros(_)
Zeros(n) == IF n = 0 THEN <<>> ELSE <<0>> \o Zeros(n - 1)

\* an entry of a chunk as the chain commits it: the block number, 8 bytes
\* big-endian, then the 52 bytes of the rest of the block context (block
\* numbers below 2^16 here)
Entry(bn) == Zeros(6) \o <<bn \div 256, bn % 256>> \o Zeros(EntrySize - 8)

RECURSIVE Entries(_, _)
Entries(first, n) ==
    IF n = 0 THEN <<>> ELSE Entry(first) \o Entries(first + 1, n - 1)

\* a chunk of n consecutive blocks: the count byte, then the entries
Chunk(first, n) == <<n>> \o Entries(first, n)

\* the chunks of a batch of consecutive blocks from `first`, sizes[k] blocks
\* in chunk k
RECURSIVE Commit(_, _)
Commit(first, sizes) ==
    IF sizes = <<>> THEN <<>>
    ELSE <<Chunk(first, Head(sizes))>> \o Commit(first + Head(sizes), Tail(sizes))

RECURSIVE SumSeq(_)
SumSeq(s) == IF s = <<>> THEN 0 ELSE Head(s) + SumSeq(Tail(s))

\* the first and the last block of a batch
FirstBlock(b) == b.first
LastBlock(b) == b.first + SumSeq(b.sizes) - 1

\* the sequences of length 1..n over S
RECURSIVE SeqsUpTo(_, _)
SeqsUpTo(S, n) ==
    IF n = 0 THEN {}
    ELSE LET shorter == SeqsUpTo(S, n - 1)
         IN  {<<x>> : x \in S} \cup shorter
               \cup {Append(q, x) : q \in shorter, x \in S}

\* the batches a handler call is given: consecutive blocks from block 0, 1
\* or 7, in up to MaxChunks chunks of up to MaxEntries blocks
Batches ==
    [first : {0, 1, 7}, sizes : SeqsUpTo(1..MaxEntries, MaxChunks)]

\* the chain heads a handler call may observe
ObservedHeads == {0, 1, 110, 70000}

\* binary.BigEndian.Uint64 (values within TLC's integers)
RECURSIVE Uint64BE(_)
Uint64BE(b) ==
    IF b = <<>> THEN 0
    ELSE 256 * Uint64BE(SubSeq(b, 1, Len(b) - 1)) + b[Len(b)]

\* the body of the two loops of proverGetPoe: one block number met
RangeStep(acc, blockNumber) ==
    IF acc.startBlock = 0
    THEN [startBlock |-> blockNumber, endBlock |-> acc.endBlock]
    ELSE [startBlock |-> acc.startBlock, endBlock |-> blockNumber]

\* for i := 0; i < int(chunk[0]); i++ over one chunk, from entry i on
RECURSIVE ChunkRange(_, _, _)
ChunkRange(acc, chunk, i) ==
    IF i >= chunk[1] THEN acc
    ELSE ChunkRange(
             RangeStep(acc, Uint64BE(SubSeq(Tail(chunk), i * EntrySize + 1,
                                            i * EntrySize + 8))),
             chunk, i + 1)

\* for _, chunk := range args[2].([][]byte)
RECURSIVE BatchRange(_, _)
BatchRange(acc, chunks) ==
    IF chunks = <<>> THEN acc
    ELSE BatchRange(ChunkRange(acc, Head(chunks), 0), Tail(chunks))

\* startBlock := int64(0); endBlock := int64(0); then the loops
DecodeBlockRange(chunks) ==
    BatchRange([startBlock |-> 0, endBlock |-> 0], chunks)

\* a 32-byte value: a tag byte, zeros, a number below 2^16
Hash32(tag, n) == <<tag>> \o Zeros(29) \o <<n \div 256, n % 256>>

\* the state root in the header of block b of the source chain
Root(b) == Hash32(1, b)

\* topics[2] of the log of a batch: the batch hash (batches told apart by
\* their first block)
BatchHash(first) == Hash32(2, first)

\* proverGetPoe in simulation, once the call data is unpacked and the two
\* headers are fetched
SimulationPoe(chunks, batchHash) ==
    LET r == DecodeBlockRange(chunks)
    IN  [Poe |-> [BatchHash |-> batchHash,
                  NewStateRoot |-> Root(r.endBlock),
                  PrevStateRoot |-> Root(r.startBlock)],
         BatchId |-> 0,
         StartBlock |-> r.startBlock,
         EndBlock |-> r.endBlock]

\* what the remote prover answers for a batch of blocks first..last:
\* {batchId, startBlock, endBlock, batchHash, prevRoot, newRoot}, the roots
\* those of the first and the last block as in simulation
LivePoe(first, last, batchHash) ==
    [Poe |-> [BatchHash |-> batchHash,
              NewStateRoot |-> Root(last),
              PrevStateRoot |-> Root(first)],
     BatchId |-> first,
     StartBlock |-> first,
     EndBlock |-> last]

\* Poe.Pack: the 32-byte fields previous root, new root, batch hash
Pack(poe) == poe.PrevStateRoot \o poe.NewStateRoot \o poe.BatchHash

\* uint32(x): the low 32 bits of x, as two 16-bit halves (2^32 is beyond
\* TLC's integers)
Uint32(x) == [hi |-> (x \div 65536) % 65536, lo |-> x % 65536]

\* a uint32 equals the number n
Uint32Is(u, n) == n >= 0 /\ u = Uint32(n)

\* a uint32 is greater than the number n >= 0
Uint32Above(u, n) ==
    \/ u.hi > n \div 65536
    \/ u.hi = n \div 65536 /\ u.lo > n % 65536

\* ReferenceBlockNumber: uint32(blockHeader.Number.Int64() - 1)
ReferenceBlockNumber(h) == Uint32(h - 1)

\* operator/operator.go: ReferenceBlockNumber: 0
LegacyReferenceBlockNumber(h) == Uint32(0)

\* the state header OnNewLog builds from the proof and the head it fetched
StateHeader(poe, h) ==
    [Metadata |-> [BatchId |-> poe.BatchId, StartBlock |-> poe.StartBlock,
                   EndBlock |-> poe.EndBlock],
     State |-> Pack(poe.Poe),
     ReferenceBlockNumber |-> ReferenceBlockNumber(h)]

\* operator/operator.go: no metadata, no head
LegacyStateHeader(poe, h) ==
    [Metadata |-> [BatchId |-> 0, StartBlock |-> 0, EndBlock |-> 0],
     State |-> Pack(poe.Poe),
     ReferenceBlockNumber |-> LegacyReferenceBlockNumber(h)]

\* ------------------------------------------------------------ Start
\* Operator.Start: the calls it makes, in order; an error of any of them is
\* returned and the later ones are not made
StartOrder ==
    <<"Simulation", "checkIsRegistered", "RegisterAttestationReport", "Run">>

\* operator/operator.go Start
LegacyStartOrder ==
    <<"RegisterOperatorWithEigenlayer", "RegisterOperatorWithAvs",
      "RegisterAttestationReport", "checkIsRegistered", "Run">>

\* checkIsRegistered without its `if !operatorIsRegistered`
checkIsRegisteredAnyAnswer(r) == r \in {"registered", "notRegistered"}

\* Operator.checkIsRegistered: r is what the registry answers; nil only when
\* the operator is registered and its id could be read
checkIsRegistered(r) == r = "registered"

\* operator/operator.go checkIsRegistered: no operator id read
LegacyCheckIsRegistered(r) == r \in {"registered", "idUnreachable"}

\* ------------------------------------------------------------ attestation
\* the registry's answers: VerifyLivenessProof / IsProverRegistered is true
\* while the last registration time plus the validity window is in the future
LivenessValid(t, v, n) == n < t + v

\* checkNext sleeping until the deadline itself
checkNextNoMargin(t, v, n) ==
    LET deadline == t + v
    IN  IF deadline > n THEN deadline - n ELSE 0

\* checkNext: the seconds it sleeps before registering again
checkNext(t, v, n) ==
    LET deadline == t + v
    IN  IF deadline > n + RenewMargin THEN deadline - n - RenewMargin ELSE 0

\* how long a registration (report, transaction, confirmation) or an outage
\* takes, in seconds
Durations == {0, 400}
Overshoots == {0, MaxOvershoot}

\* ------------------------------------------------------------ state
VARIABLES
    variant,      \* "full" or "legacy": which operator runs
    simulation,   \* cfg.Config.Simulation
    validSecs,    \* AttestValiditySeconds of the liveness verifier
    chainSim,     \* Simulation() of the on-chain liveness verifier
    offset,       \* the bytes of the offset file
    hIdx,         \* the chain head is HeadAt(hIdx)
    t0,           \* AttestedProvers[key].Time: the last registration, 0 if none
    now,          \* the clock, seconds
    startPc,      \* the call Start is about to make; "running"; "failed"
    tracerPc,     \* "off", "poll" (between cycles), "dispatch", "stopped"
    window,       \* the scan window of the cycle: (from, target]
    queue,        \* the logs of the window not yet dispatched
    renewPc,      \* the renewal goroutine: "off", "checkNext", "sleep", "register"
    wakeAt,       \* time.Now() of checkNext plus the seconds it sleeps
    renewOutcome, \* how the loop's last cycle ended, until the next one begins
    \* one handler call on its own: what it is given and what it builds
    batch,        \* the batch the log's tx commits: first block, chunk sizes
    obsHead,      \* the chain head HeaderByNumber(ctx, nil) answers
    header,       \* the state header handed to the aggregator, if any
    \* history
    cycleErr,     \* a handler call of the current cycle returned an error
    cycleRpcErr,  \* an RPC was unreachable during the current cycle
    lastRet,      \* the log last dispatched in this cycle, what its call did
    calls,        \* handler calls per log in this process run (2 = more than 1)
    sent,         \* SubmitTask calls per log in this process run (2 = more than 1)
    handled,      \* the logs with a handler call that returned, in any run
    saved,        \* the block of the last SaveBlock that returned nil
    resumeC,      \* saved, when this process run started
    restarts,     \* crashes so far
    coordReg,     \* what the registry answered to checkIsRegistered in this run
    attestPass    \* outcome of the first registration pass in this run

cfgVars == <<variant, simulation, validSecs, chainSim>>
handlerVars == <<batch, obsHead, header>>
chainVars == <<hIdx>>
tracerVars == <<tracerPc, window, queue, cycleErr, cycleRpcErr, lastRet,
                calls, sent, handled>>
fileVars == <<offset, saved>>
startVars == <<startPc, coordReg, attestPass>>
renewVars == <<renewPc, wakeAt, renewOutcome>>
clockVars == <<t0, now>>
runVars == <<resumeC, restarts>>
vars == <<cfgVars, handlerVars, chainVars, tracerVars, fileVars, startVars,
          renewVars, clockVars, runVars>>

head == HeadAt(hIdx)
NoWindow == [from |-> 0, target |-> 0]
NoLog == [block |-> 0, index |-> 0]
NoRet == [log |-> NoLog, ret |-> Ret(FALSE, FALSE, FALSE, FALSE, FALSE)]

\* Handler: operator - the tracer's callbacks are the running operator's
HandlerGetBlock == IF variant = "full" THEN GetBlock(offset) ELSE LegacyGetBlock
HandlerSaveBlock(n) ==
    IF variant = "full" THEN SaveBlock(offset, n) ELSE LegacySaveBlock(offset, n)
StartSteps == IF variant = "full" THEN StartOrder ELSE LegacyStartOrder

\* the call of Start after `step`
AfterStep(step) ==
    LET i == CHOOSE j \in 1..Len(StartSteps) : StartSteps[j] = step
    IN  StartSteps[i + 1]

\* no handler call is looked at on its own
NoHandlerCall ==
    batch = [first |-> 0, sizes |-> <<>>] /\ obsHead = 0 /\ header = <<>>

\* the process before Start has made any call
ProcessStart ==
    /\ startPc = StartSteps[1]
    /\ tracerPc = "off"
    /\ window = NoWindow
    /\ queue = <<>>
    /\ renewPc = "off"
    /\ wakeAt = 0
    /\ renewOutcome = "none"
    /\ cycleErr = FALSE
    /\ cycleRpcErr = FALSE
    /\ lastRet = NoRet
    /\ calls = [l \in ChainLogs |-> 0]
    /\ sent = [l \in ChainLogs |-> 0]
    /\ handled = {}
    /\ restarts = 0
    /\ resumeC = 0
    /\ coordReg = "none"
    /\ attestPass = "none"

\* the registry at start: validity window and last registration (0: none)
InitRegistry == { <<1000, 0>>, <<1000, 1900>>, <<200, 1900>> }

\* the state after NewOperator: the offset file just created (a file that
\* earlier runs wrote is reached through CrashRestart)
Init ==
    /\ variant \in {"full", "legacy"}
    /\ simulation \in (IF variant = "full" THEN BOOLEAN ELSE {FALSE})
    /\ chainSim \in (IF variant = "full" THEN BOOLEAN ELSE {FALSE})
    /\ \E reg \in InitRegistry : validSecs = reg[1] /\ t0 = reg[2]
    /\ now = 2000
    /\ offset = <<>>
    /\ saved = 0
    /\ hIdx = 1
    /\ NoHandlerCall
    /\ ProcessStart

\* ------------------------------------------------------------ Start, step by step
FailStart ==
    /\ startPc' = "failed"
    /\ tracerPc' = "stopped"

\* the modes taken as matching whatever the contract answers
SimulationMatchesAlways(isSimulation, local) == TRUE

\* if isSimulation != o.cfg.Config.Simulation { return error }
SimulationMatches(isSimulation, local) == isSimulation = local

\* o.TEELivenessVerifier.Simulation(nil) and the comparison with the
\* configured mode
StartSimulation ==
    /\ startPc = "Simulation"
    /\ \E r \in {"unreachable", "answer"} :
         IF r # "unreachable" /\ SimulationMatches(chainSim, simulation)
         THEN startPc' = AfterStep(startPc) /\ UNCHANGED tracerPc
         ELSE FailStart
    /\ UNCHANGED <<cfgVars, handlerVars, chainVars, window, queue, cycleErr,
                   cycleRpcErr,
                   lastRet, calls, sent, handled, fileVars, coordReg,
                   attestPass, renewVars, clockVars, runVars>>

\* operator/operator.go: RegisterOperatorWithEigenlayer, RegisterOperatorWithAvs
StartRegisterOperator ==
    /\ startPc \in {"RegisterOperatorWithEigenlayer", "RegisterOperatorWithAvs"}
    /\ \E ok \in BOOLEAN :
         IF ok THEN startPc' = AfterStep(startPc) /\ UNCHANGED tracerPc
         ELSE FailStart
    /\ UNCHANGED <<cfgVars, handlerVars, chainVars, window, queue, cycleErr,
                   cycleRpcErr,
                   lastRet, calls, sent, handled, fileVars, coordReg,
                   attestPass, renewVars, clockVars, runVars>>

StartCheckIsRegistered ==
    /\ startPc = "checkIsRegistered"
    /\ \E r \in {"unreachable", "notRegistered", "idUnreachable", "registered"} :
         LET ok == IF variant = "full" THEN checkIsRegistered(r)
                   ELSE LegacyCheckIsRegistered(r)
         IN  /\ coordReg' = r
             /\ IF ok THEN startPc' = AfterStep(startPc) /\ UNCHANGED tracerPc
                ELSE FailStart
    /\ UNCHANGED <<cfgVars, handlerVars, chainVars, window, queue, cycleErr,
                   cycleRpcErr,
                   lastRet, calls, sent, handled, fileVars,
                   attestPass, renewVars, clockVars, runVars>>

\* Operator.RegisterAttestationReport: the first pass; on success the full
\* operator starts the renewal goroutine before it returns. Q: what the
\* VerifyLivenessProof call may answer, R: how a registration may end, D: how
\* long it may take
StartRegisterAttestationReportWith(Q, R, D) ==
    /\ startPc = "RegisterAttestationReport"
    /\ \E q \in Q, res \in R, d \in D :
         IF q = "unreachable"
         THEN /\ FailStart
              /\ attestPass' = "failed"
              /\ UNCHANGED <<clockVars, renewPc>>
         ELSE IF LivenessValid(t0, validSecs, now)
         THEN /\ startPc' = AfterStep(startPc)
              /\ attestPass' = "ok"
              /\ renewPc' = IF variant = "full" THEN "checkNext" ELSE "off"
              /\ UNCHANGED <<clockVars, tracerPc>>
         ELSE /\ now + d <= MaxNow
              /\ now' = now + d
              /\ IF res = "ok"
                 THEN /\ t0' = now + d
                      /\ startPc' = AfterStep(startPc)
                      /\ attestPass' = "ok"
                      /\ renewPc' = IF variant = "full" THEN "checkNext" ELSE "off"
                      /\ UNCHANGED tracerPc
                 ELSE /\ FailStart
                      /\ attestPass' = "failed"
                      /\ UNCHANGED <<t0, renewPc>>
    /\ UNCHANGED <<cfgVars, handlerVars, chainVars, window, queue, cycleErr,
                   cycleRpcErr,
                   lastRet, calls, sent, handled, fileVars, coordReg, wakeAt,
                   renewOutcome, runVars>>

StartRegisterAttestationReport ==
    StartRegisterAttestationReportWith({"unreachable", "ok"}, {"ok", "fail"},
                                       Durations)

\* o.taskFetcher.Run(ctx)
StartRun ==
    /\ startPc = "Run"
    /\ startPc' = "running"
    /\ tracerPc' = "poll"
    /\ UNCHANGED <<cfgVars, handlerVars, chainVars, window, queue, cycleErr,
                   cycleRpcErr,
                   lastRet, calls, sent, handled, fileVars, coordReg,
                   attestPass, renewVars, clockVars, runVars>>

\* ------------------------------------------------------------ the scan cycle
\* target of the window that starts above checkpoint c under chain head h
ScanTarget(c, h) == Min(c + Max, h - Wait)

\* the logs of the window (c, target], in dispatch order
WindowLogs(c, target) ==
    SortLogs({l \in ChainLogs : c < l.block /\ l.block <= target})

\* a cycle that ends before any dispatch: the chain head read or the log
\* fetch is unreachable; the tracer sleeps and polls again
CycleRpcError ==
    /\ tracerPc = "poll"
    /\ cycleRpcErr' = TRUE
    /\ cycleErr' = FALSE
    /\ lastRet' = NoRet
    /\ UNCHANGED <<cfgVars, handlerVars, chainVars, tracerPc, window, queue, calls, sent,
                   handled, fileVars, startVars, renewVars, clockVars, runVars>>

\* a cycle with nothing to scan yet: target <= checkpoint
CycleNoWindow ==
    /\ tracerPc = "poll"
    /\ ~HandlerGetBlock.err
    /\ ScanTarget(HandlerGetBlock.block, head) <= HandlerGetBlock.block
    /\ cycleRpcErr' = FALSE
    /\ cycleErr' = FALSE
    /\ lastRet' = NoRet
    /\ UNCHANGED <<cfgVars, handlerVars, chainVars, tracerPc, window, queue, calls, sent,
                   handled, fileVars, startVars, renewVars, clockVars, runVars>>

\* a cycle with a window: read the checkpoint and the head, fetch the logs
CycleBegin ==
    /\ tracerPc = "poll"
    /\ ~HandlerGetBlock.err
    /\ LET c == HandlerGetBlock.block
           target == ScanTarget(c, head)
       IN  /\ target > c
           /\ window' = [from |-> c, target |-> target]
           /\ queue' = WindowLogs(c, target)
    /\ tracerPc' = "dispatch"
    /\ cycleRpcErr' = FALSE
    /\ cycleErr' = FALSE
    /\ lastRet' = NoRet
    /\ UNCHANGED <<cfgVars, handlerVars, chainVars, calls, sent, handled, fileVars,
                   startVars, renewVars, clockVars, runVars>>

Bump(f, l) == [f EXCEPT ![l] = Min(@ + 1, 2)]

\* the next log of the window is handed to OnNewLog; on an error the
\* skip-tolerant tracer goes on, the other one aborts the cycle
Dispatch ==
    /\ tracerPc = "dispatch"
    /\ queue # <<>>
    /\ LET l == Head(queue)
       IN \E rpc \in (IF variant = "full" THEN RpcOutcomes(simulation)
                      ELSE LegacyRpcOutcomes) :
            LET r == IF variant = "full" THEN OnNewLog(simulation, rpc)
                     ELSE LegacyOnNewLog(rpc)
            IN  /\ lastRet' = [log |-> l, ret |-> r]
                /\ calls' = Bump(calls, l)
                /\ sent' = IF r.sent THEN Bump(sent, l) ELSE sent
                /\ handled' = handled \cup {l}
                /\ cycleErr' = (cycleErr \/ r.err)
                /\ cycleRpcErr' = (cycleRpcErr \/ r.transport)
                /\ IF r.err /\ ~SkipOnError(variant)
                   THEN /\ tracerPc' = "poll"
                        /\ queue' = <<>>
                        /\ window' = NoWindow
                   ELSE /\ queue' = Tail(queue)
                        /\ UNCHANGED <<tracerPc, window>>
    /\ UNCHANGED <<cfgVars, handlerVars, chainVars, fileVars, startVars, renewVars,
                   clockVars, runVars>>

\* the window is through: SaveBlock(target)
WindowEnd ==
    /\ tracerPc = "dispatch"
    /\ queue = <<>>
    /\ offset' = HandlerSaveBlock(window.target)
    /\ saved' = window.target
    /\ tracerPc' = "poll"
    /\ window' = NoWindow
    /\ UNCHANGED <<cfgVars, handlerVars, chainVars, queue, cycleErr, cycleRpcErr, lastRet,
                   calls, sent, handled, startVars, renewVars, clockVars,
                   runVars>>

\* SaveBlock returns an error (the write fails): Run returns it, Start
\* returns it and the process ends
WindowEndSaveFails ==
    /\ tracerPc = "dispatch"
    /\ queue = <<>>
    /\ variant = "full"
    /\ FailStart
    /\ renewPc' = "off"
    /\ window' = NoWindow
    /\ UNCHANGED <<cfgVars, handlerVars, chainVars, queue, cycleErr,
                   cycleRpcErr, lastRet, calls, sent, handled, fileVars,
                   coordReg, attestPass, wakeAt, renewOutcome, clockVars,
                   runVars>>

\* the cancellation of ctx ending the renewal goroutine too
CancelRunStopsRenewal ==
    /\ tracerPc = "poll"
    /\ tracerPc' = "stopped"
    /\ startPc' = "returned"
    /\ renewPc' = "off"
    /\ UNCHANGED <<cfgVars, handlerVars, chainVars, window, queue, cycleErr,
                   cycleRpcErr, lastRet, calls, sent, handled, fileVars,
                   coordReg, attestPass, wakeAt, renewOutcome, clockVars,
                   runVars>>

\* ctx is cancelled: the tracer honours it between two cycles, Run returns
\* and Start returns; the renewal goroutine runs on context.Background()
CancelRun ==
    /\ tracerPc = "poll"
    /\ tracerPc' = "stopped"
    /\ startPc' = "returned"
    /\ UNCHANGED <<cfgVars, handlerVars, chainVars, window, queue, cycleErr,
                   cycleRpcErr, lastRet, calls, sent, handled, fileVars,
                   coordReg, attestPass, renewVars, clockVars, runVars>>

\* the chain grows
AdvanceHead ==
    /\ \E j \in (hIdx + 1)..MaxHeadIdx : hIdx' = j
    /\ UNCHANGED <<cfgVars, handlerVars, tracerVars, fileVars, startVars, renewVars,
                   clockVars, runVars>>

\* ------------------------------------------------------------ the renewal goroutine
\* the loop ended by an error of checkNext
RenewLoopReturnsOnError(err) == IF err THEN "off" ELSE "checkNext"

\* for { if err := checkNext(ctx); err != nil { logex.Error(err) } }: after a
\* cycle, failed or not, the next checkNext
RenewLoopNext(err) == "checkNext"

\* checkNext reads the validity window and the attestation record; a read
\* that fails ends the cycle, and the loop starts the next one at once
RenewReadError ==
    /\ renewPc = "checkNext"
    /\ renewPc' = RenewLoopNext(TRUE)
    /\ renewOutcome' = "fail"
    /\ UNCHANGED <<cfgVars, handlerVars, chainVars, tracerVars, fileVars,
                   startVars, wakeAt, clockVars, runVars>>

\* checkNext up to its sleep: deadline, time.Now(), the sleep if any
RenewCheckNext ==
    /\ renewPc = "checkNext"
    /\ wakeAt' = now + checkNext(t0, validSecs, now)
    /\ renewPc' = IF checkNext(t0, validSecs, now) > 0 THEN "sleep" ELSE "register"
    /\ renewOutcome' = "none"
    /\ UNCHANGED <<cfgVars, handlerVars, chainVars, tracerVars, fileVars,
                   startVars, clockVars, runVars>>

\* time.Sleep returns: at wakeAt or a little later
RenewWake ==
    /\ renewPc = "sleep"
    /\ \E over \in Overshoots : wakeAt + over <= MaxNow /\ now' = wakeAt + over
    /\ renewPc' = "register"
    /\ UNCHANGED <<cfgVars, handlerVars, chainVars, tracerVars, fileVars,
                   startVars, wakeAt, renewOutcome, t0, runVars>>

\* Operator.registerAttestationReport called by checkNext: report,
\* SubmitLivenessProof, WaitTx; any of them may fail. R: how the call may
\* end, D: how long it may take
RenewRegisterWith(R, D) ==
    /\ renewPc = "register"
    /\ \E res \in R, d \in D :
         /\ d = 0 \/ now + d <= MaxNow
         /\ now' = now + d
         /\ t0' = IF res = "ok" THEN now + d ELSE t0
         /\ renewOutcome' = res
         /\ renewPc' = RenewLoopNext(res = "fail")
    /\ UNCHANGED <<cfgVars, handlerVars, chainVars, tracerVars, fileVars,
                   startVars, wakeAt, runVars>>

RenewRegister == RenewRegisterWith({"ok", "fail"}, Durations)

\* ------------------------------------------------------------ crash and restart
\* the process dies at any point and is started again: what it held in
\* memory is gone, the offset file and the chain stay
CrashRestart ==
    /\ restarts < MaxRestarts
    /\ restarts' = restarts + 1
    /\ resumeC' = saved
    /\ \E d \in Durations : (d = 0 \/ now + d <= MaxNow) /\ now' = now + d
    /\ startPc' = StartSteps[1]
    /\ tracerPc' = "off"
    /\ window' = NoWindow
    /\ queue' = <<>>
    /\ renewPc' = "off"
    /\ wakeAt' = 0
    /\ renewOutcome' = "none"
    /\ cycleErr' = FALSE
    /\ cycleRpcErr' = FALSE
    /\ lastRet' = NoRet
    /\ calls' = [l \in ChainLogs |-> 0]
    /\ sent' = [l \in ChainLogs |-> 0]
    /\ coordReg' = "none"
    /\ attestPass' = "none"
    /\ UNCHANGED <<cfgVars, handlerVars, chainVars, handled, fileVars, t0>>

Next ==
    \/ StartSimulation
    \/ StartRegisterOperator
    \/ StartCheckIsRegistered
    \/ StartRegisterAttestationReport
    \/ StartRun
    \/ CycleRpcError
    \/ CycleNoWindow
    \/ CycleBegin
    \/ Dispatch
    \/ WindowEnd
    \/ WindowEndSaveFails
    \/ CancelRun
    \/ AdvanceHead
    \/ RenewReadError
    \/ RenewCheckNext
    \/ RenewWake
    \/ RenewRegister
    \/ CrashRestart

Spec == Init /\ [][Next]_vars

\* ------------------------------------------------------------ the renewal loop, scheduled
\* Start and the renewal goroutine of the operator with the offset file, the
\* tracer's cycles left out. The goroutine is scheduled whenever it can run
\* (a read of the registry is eventually answered, a sleep returns), and a
\* registration that keeps being tried eventually succeeds.
RenewInit == Init /\ variant = "full"

RenewNext ==
    \/ StartSimulation
    \/ StartCheckIsRegistered
    \/ StartRegisterAttestationReport
    \/ StartRun
    \/ RenewReadError
    \/ RenewCheckNext
    \/ RenewWake
    \/ RenewRegister

RenewSpec ==
    /\ RenewInit
    /\ [][RenewNext]_vars
    /\ WF_vars(RenewCheckNext)
    /\ WF_vars(RenewWake)
    /\ SF_vars(RenewRegisterWith({"ok"}, Durations))

\* ------------------------------------------------------------ the renewal loop, every attempt in time
\* Start and the renewal goroutine when every registration succeeds and
\* takes less than the margin, for several validity windows and several
\* ages of the attestation the operator starts with (now = 2000 at start)
ShortDurations == {0, 200}

LapseRegistry ==
    { <<1000, 0>>, <<1000, 1900>>, <<1000, 1300>>, <<1000, 1100>>,
      <<200, 1900>>, <<200, 0>>, <<301, 0>> }

LapseInit ==
    /\ variant = "full"
    /\ simulation \in BOOLEAN
    /\ chainSim \in BOOLEAN
    /\ \E reg \in LapseRegistry : validSecs = reg[1] /\ t0 = reg[2]
    /\ now = 2000
    /\ offset = <<>>
    /\ saved = 0
    /\ hIdx = 1
    /\ NoHandlerCall
    /\ ProcessStart

StartRegisterAttestationReportInTime ==
    StartRegisterAttestationReportWith({"ok"}, {"ok"}, ShortDurations)

RenewRegisterInTime == RenewRegisterWith({"ok"}, ShortDurations)

LapseNext ==
    \/ StartSimulation
    \/ StartCheckIsRegistered
    \/ StartRegisterAttestationReportInTime
    \/ StartRun
    \/ RenewCheckNext
    \/ RenewWake
    \/ RenewRegisterInTime

LapseSpec == LapseInit /\ [][LapseNext]_vars

\* ------------------------------------------------------------ the offset record on its own
\* what the offset file may hold when SaveBlock is called: nothing, records
\* SaveBlock wrote, a record ending in a newline
PriorRecords ==
    { <<>>, FormatUint(5), FormatUint(100), FormatUint(155),
      FormatUint(12345), FormatUint(100) \o <<10>> }

\* the block numbers SaveBlock is called with
RecordBlocks == {0, 7, 20, 99, 100, 155, 1000, 123456}

RecordInit ==
    /\ variant = "full"
    /\ simulation = FALSE
    /\ chainSim = FALSE
    /\ validSecs = 1000
    /\ t0 = 0
    /\ now = 2000
    /\ offset \in PriorRecords
    /\ saved = 0
    /\ hIdx = 1
    /\ NoHandlerCall
    /\ ProcessStart

\* SaveBlock(n) returns nil
RecordSave ==
    /\ \E n \in RecordBlocks :
         /\ offset' = SaveBlock(offset, n)
         /\ saved' = n
    /\ UNCHANGED <<cfgVars, handlerVars, chainVars, tracerVars, startVars,
                   renewVars, clockVars, runVars>>

RecordNext == RecordSave

RecordSpec == RecordInit /\ [][RecordNext]_vars

\* ------------------------------------------------------------ one handler call on its own
\* OnNewLog handed the log of a batch, every remote call answering and the
\* prover not skipping: the proof it gets and the state header it submits
HandlerInit ==
    /\ variant \in {"full", "legacy"}
    /\ simulation \in (IF variant = "full" THEN BOOLEAN ELSE {FALSE})
    /\ chainSim = simulation
    /\ validSecs = 1000
    /\ t0 = 0
    /\ now = 2000
    /\ offset = <<>>
    /\ saved = 0
    /\ hIdx = 1
    /\ batch \in Batches
    /\ obsHead \in ObservedHeads
    /\ header = <<>>
    /\ ProcessStart

\* the proof proverGetPoe returns for the batch
PoeOf(b, sim) ==
    IF sim THEN SimulationPoe(Commit(b.first, b.sizes), BatchHash(b.first))
    ELSE LivePoe(FirstBlock(b), LastBlock(b), BatchHash(b.first))

HandleLog ==
    /\ header = <<>>
    /\ header' = IF variant = "full"
                 THEN <<StateHeader(PoeOf(batch, simulation), obsHead)>>
                 ELSE <<LegacyStateHeader(PoeOf(batch, FALSE), obsHead)>>
    /\ UNCHANGED <<cfgVars, batch, obsHead, chainVars, tracerVars, fileVars,
                   startVars, renewVars, clockVars, runVars>>

HandlerNext == HandleLog

HandlerSpec == HandlerInit /\ [][HandlerNext]_vars

\* ------------------------------------------------------------ claims
Checkpoint == HandlerGetBlock.block
FullCheckpoint(f) == GetBlock(f).block
Running == tracerPc \in {"poll", "dispatch"}

\* C1 - Checkpoint monotonicity. Over any sequence of scan cycles, restarts
\* included, the block GetBlock reads from the offset file never decreases, it
\* is always readable, and it equals the target of the last window whose
\* SaveBlock returned nil (the highest window fully processed).
C1_CheckpointMonotonic ==
    /\ [](variant = "full" =>
            /\ ~GetBlock(offset).err
            /\ ~GetBlock(offset).wrapped
            /\ FullCheckpoint(offset) = saved)
    /\ [][FullCheckpoint(offset') >= FullCheckpoint(offset)]_vars

C1_Witness ==
    /\ variant = "full"
    /\ restarts = 1
    /\ tracerPc = "poll"
    /\ saved = 155
    /\ FullCheckpoint(offset) = 155

\* C2 - Exactly-once-per-restart. In a process run that started with saved
\* checkpoint C (the block of the last SaveBlock that returned nil), no log
\* at a block <= C is handed to OnNewLog, and every matching log in
\* (C, saved] has been handed to it in this run.
C2_ResumeFromSaved ==
    \A l \in ChainLogs :
        /\ calls[l] > 0 => l.block > resumeC
        /\ (resumeC < l.block /\ l.block <= saved) => calls[l] > 0

\* C3 (as claimed) - the checkpoint advances only after a window whose
\* handler calls all returned no error.
C3_AdvanceOnlyAfterSuccess ==
    [][Checkpoint' # Checkpoint \/ saved' # saved => ~cycleErr]_vars

\* C3 (amended) - every matching log at a block <= the persisted checkpoint
\* has had a handler call that returned, with no error or with an error the
\* skip-tolerant tracer logged and passed over; the checkpoint never moves
\* past a log that was not dispatched.
C3_NoUndispatchedBelowCheckpoint ==
    \A l \in ChainLogs :
        (l.block <= Checkpoint \/ l.block <= saved) => l \in handled

C3_Witness ==
    /\ variant = "full"
    /\ tracerPc = "poll"
    /\ lastRet.ret.err
    /\ lastRet.log \in handled
    /\ lastRet.log.block <= FullCheckpoint(offset)

\* C4 - Handler-error policy. A handler error under SkipOnError leaves the
\* rest of the window queued for dispatch and the window's end sets the
\* checkpoint to its target; without SkipOnError the error ends the cycle
\* with the checkpoint unchanged, and the next window starts again from the
\* first log above that checkpoint.
C4_HandlerErrorPolicy ==
    [][ /\ (tracerPc = "dispatch" /\ queue # <<>> /\ lastRet' # lastRet
              /\ lastRet'.ret.err /\ tracerPc' # "off")
          => IF variant = "full"
             THEN /\ tracerPc' = "dispatch"
                  /\ queue' = Tail(queue)
                  /\ window' = window
             ELSE /\ tracerPc' = "poll"
                  /\ queue' = <<>>
                  /\ UNCHANGED <<offset, saved>>
        /\ (variant = "full" /\ tracerPc = "dispatch" /\ tracerPc' = "poll")
          => /\ queue = <<>>
             /\ FullCheckpoint(offset') = window.target
        /\ (variant = "legacy" /\ tracerPc = "poll" /\ tracerPc' = "dispatch")
          => /\ window'.from = Checkpoint
             /\ queue' = WindowLogs(Checkpoint, window'.target)
      ]_vars

C4_Witness ==
    /\ variant = "legacy"
    /\ tracerPc = "poll"
    /\ lastRet.ret.err
    /\ calls[lastRet.log] = 2

\* C5 - Scan-window target. A cycle with checkpoint C under chain head H
\* scans exactly (C, min(C + 100, H - 5)]; when that target is <= C (also
\* when H < 5) it dispatches nothing and leaves the checkpoint; the
\* checkpoint moves only at the end of a window, once its queue is empty, and
\* then to the window's target (C = 100, H = 160: 155).
C5_ScanWindow ==
    /\ [](variant = "full" /\ tracerPc = "dispatch"
            => FullCheckpoint(offset) = window.from)
    /\ [][ LET c == Checkpoint
               target == IF c + 100 < head - 5 THEN c + 100 ELSE head - 5
           IN  /\ (tracerPc = "poll" /\ tracerPc' = "dispatch")
                 => /\ target > c
                    /\ window' = [from |-> c, target |-> target]
                    /\ \A l \in ChainLogs :
                         (\E i \in 1..Len(queue') : queue'[i] = l)
                           <=> (c < l.block /\ l.block <= target)
               /\ (tracerPc = "poll" /\ target <= c)
                 => /\ tracerPc' # "dispatch"
                    /\ offset' = offset
                    /\ \A l \in ChainLogs : calls'[l] <= calls[l]
               /\ (variant = "full" /\ FullCheckpoint(offset') # FullCheckpoint(offset))
                 => /\ tracerPc = "dispatch"
                    /\ queue = <<>>
                    /\ FullCheckpoint(offset') = window.target
         ]_vars

C5_Witness ==
    /\ variant = "full"
    /\ tracerPc = "dispatch"
    /\ head = 160
    /\ window = [from |-> 100, target |-> 155]
    /\ queue = <<>>
    /\ FullCheckpoint(offset) = 100

\* C6 - Skip semantics. A handler call whose proof retrieval answered skip
\* built no state header, called SubmitTask not at all and returned nil; the
\* tracer goes on with the window, and the window's end still sets the
\* checkpoint to the target.
C6_SkipSemantics ==
    /\ [](lastRet.ret.skip =>
            ~lastRet.ret.built /\ ~lastRet.ret.sent /\ ~lastRet.ret.err)
    /\ [][ /\ (lastRet' # lastRet /\ lastRet'.ret.skip)
             => /\ sent' = sent
                /\ cycleErr' = cycleErr
                /\ tracerPc' = "dispatch"
                /\ queue' = Tail(queue)
           /\ (lastRet.ret.skip /\ tracerPc = "dispatch" /\ tracerPc' = "poll")
             => /\ Checkpoint' = window.target
                /\ Checkpoint' >= lastRet.log.block
         ]_vars

C6_Witness ==
    /\ lastRet.ret.skip
    /\ tracerPc = "poll"
    /\ sent[lastRet.log] = 0
    /\ calls[lastRet.log] = 1
    /\ Checkpoint = 155
    /\ lastRet.log.block = 155

\* C7 - Transport errors never advance the checkpoint: once an RPC was
\* unreachable in a cycle (head read, log fetch, or a call made by OnNewLog),
\* the checkpoint keeps its value until the next cycle begins.
C7_TransportErrorKeepsCheckpoint ==
    [][cycleRpcErr => Checkpoint' = Checkpoint /\ saved' = saved]_vars

\* C8 - Single submission, no retry: in one process run SubmitTask is called
\* at most once for each log.
C8_SubmitAtMostOncePerRun ==
    \A l \in ChainLogs : sent[l] <= 1

\* C9 (as claimed) - the renewal registration is issued no earlier than
\* t0 + V - 300 and no later than t0 + V.
C9_RenewalWithinWindow ==
    renewPc = "register" =>
        /\ now >= t0 + validSecs - 300
        /\ now <= t0 + validSecs

\* C9 (amended) - the renewal registration is issued no earlier than
\* t0 + V - 300. A cycle that starts before t0 + V - 300 sleeps until then and
\* issues when the sleep returns, no later than t0 + V as long as the sleep
\* overshoots by less than the margin; a cycle that starts at or after
\* t0 + V - 300 issues at once without sleeping, which is after t0 + V when
\* the cycle starts after expiry.
C9_RenewalTiming ==
    /\ renewPc = "sleep" =>
         /\ wakeAt = t0 + validSecs - 300
         /\ now < wakeAt
    /\ renewPc = "register" =>
         /\ now >= t0 + validSecs - 300
         /\ wakeAt >= t0 + validSecs - 300
         /\ wakeAt = t0 + validSecs - 300 => now <= t0 + validSecs
         /\ wakeAt > t0 + validSecs - 300 => now = wakeAt

C9_Witness ==
    /\ renewPc = "register"
    /\ validSecs = 1000
    /\ wakeAt = t0 + 700
    /\ now > wakeAt
    /\ now <= t0 + 1000

\* C10 - Startup gating. The tracer runs only after checkIsRegistered found
\* the operator registered and the first attestation pass succeeded; when
\* the registry does not confirm the registration or the first pass fails,
\* Start has returned an error, no log was dispatched and no checkpoint was
\* written in this run.
C10_StartupGating ==
    /\ Running => coordReg \in {"registered", "idUnreachable"} /\ attestPass = "ok"
    /\ (variant = "full" /\ Running) => coordReg = "registered"
    /\ (coordReg \in {"unreachable", "notRegistered"} \/ attestPass = "failed")
         => /\ startPc = "failed"
            /\ tracerPc = "stopped"
            /\ \A l \in ChainLogs : calls[l] = 0
            /\ saved = resumeC
    /\ renewPc # "off" => attestPass = "ok"

C10_Witness ==
    /\ variant = "full"
    /\ coordReg = "notRegistered"
    /\ startPc = "failed"
    /\ hIdx = MaxHeadIdx
    /\ restarts = 1
    /\ saved = 100

\* C11 - Absent checkpoint. GetBlock on an empty offset file returns block 0
\* and no error, and the cycle that reads it scans from block 0: its window
\* starts above 0 and holds every matching log up to the target; a record
\* that is not empty is read without error as the decimal number it holds
\* (formatting the block read gives back the bytes of the record).
C11_AbsentCheckpoint ==
    /\ [](variant = "full" =>
            /\ offset = <<>> =>
                 GetBlock(offset) = [err |-> FALSE, block |-> 0, wrapped |-> FALSE]
            /\ offset # <<>> =>
                 /\ ~GetBlock(offset).err
                 /\ ~GetBlock(offset).wrapped
                 /\ FormatUint(GetBlock(offset).block) = offset)
    /\ [][(variant = "full" /\ offset = <<>>
            /\ tracerPc = "poll" /\ tracerPc' = "dispatch")
          => /\ window'.from = 0
             /\ \A l \in ChainLogs :
                  l.block <= window'.target
                    => \E i \in 1..Len(queue') : queue'[i] = l
         ]_vars

C11_Witness ==
    /\ variant = "full"
    /\ offset = <<>>
    /\ tracerPc = "dispatch"
    /\ window = [from |-> 0, target |-> 100]
    /\ Len(queue) = 2

\* C12 - Cross-mode equivalence. The packed proof payload (State) of the
\* header the operator builds for a batch is the payload packed from the
\* live proof of that batch (same block range, same roots of its first and
\* last block, same batch hash), whether the operator runs in simulation or
\* live. Fails in simulation for a batch of one block and for a batch that
\* starts at block 0.
C12_CrossModeEquivalence ==
    (variant = "full" /\ header # <<>>) =>
        /\ header[1].State = Pack(PoeOf(batch, FALSE).Poe)
        /\ Pack(PoeOf(batch, TRUE).Poe) = Pack(PoeOf(batch, FALSE).Poe)

\* C13 - Simulation block-range decoding. In simulation the header's
\* StartBlock is the block number of the first entry of the first chunk and
\* its EndBlock that of the last entry of the last chunk (equal for a batch
\* of one block, StartBlock 0 for a batch that starts at block 0), and the
\* roots packed are those of these two blocks.
C13_SimulationBlockRange ==
    (variant = "full" /\ simulation /\ header # <<>>) =>
        /\ header[1].Metadata.StartBlock = FirstBlock(batch)
        /\ header[1].Metadata.EndBlock = LastBlock(batch)
        /\ header[1].State = Root(FirstBlock(batch)) \o Root(LastBlock(batch))
                                \o BatchHash(batch.first)

\* C14 - Reference block number. The ReferenceBlockNumber of every header
\* handed to the aggregator is the observed chain head minus 1, and is not
\* above the head.
C14_ReferenceBlockNumber ==
    header # <<>> =>
        /\ Uint32Is(header[1].ReferenceBlockNumber, obsHead - 1)
        /\ ~Uint32Above(header[1].ReferenceBlockNumber, obsHead)

\* C15 - Dispatch order. Each dispatch step hands exactly one log to the
\* handler, and the call has returned when the step ends; the log is in the
\* scan window, it comes after the log dispatched before it in this cycle in
\* (block, log index) order, and no log of the window lies between the two
\* (none before it, for the first dispatch of the cycle); the logs still
\* queued all come after it.
C15_DispatchOrder ==
    [][ (tracerPc = "dispatch" /\ queue # <<>> /\ queue' # queue
           /\ tracerPc' \in {"dispatch", "poll"})
        => LET l == lastRet'.log
               prev == lastRet.log
               Earlier(a, b) ==
                   a.block < b.block \/ (a.block = b.block /\ a.index < b.index)
               W == {m \in ChainLogs :
                        window.from < m.block /\ m.block <= window.target}
           IN  /\ l \in W
               /\ Earlier(prev, l)
               /\ ~\E m \in W : Earlier(prev, m) /\ Earlier(m, l)
               /\ calls'[l] = IF calls[l] = 2 THEN 2 ELSE calls[l] + 1
               /\ \A m \in ChainLogs \ {l} : calls'[m] = calls[m]
               /\ \A i \in 1..Len(queue') : Earlier(l, queue'[i])
      ]_vars

C15_Witness ==
    /\ tracerPc = "dispatch"
    /\ window = [from |-> 0, target |-> 100]
    /\ lastRet.log = [block |-> 100, index |-> 1]
    /\ calls[[block |-> 100, index |-> 0]] = 1
    /\ calls[[block |-> 100, index |-> 1]] = 1
    /\ queue = <<>>

\* C16 - Renewal retry. The renewal loop, once started, never ends; when a
\* step of a cycle has failed (a read of the registry, the report, the
\* submission, the wait for the transaction) the loop is at the start of a
\* new cycle, which reads the registry again; and, the steps eventually
\* succeeding, a failed cycle is eventually followed by a registration that
\* succeeds (unless the loop is asleep until after the end of the modelled
\* clock).
C16_RenewalRetry ==
    /\ [](renewOutcome = "fail" => renewPc = "checkNext")
    /\ [][renewPc # "off" => renewPc' # "off"]_vars
    /\ (renewOutcome = "fail") ~> (renewOutcome = "ok" \/ wakeAt > MaxNow)

C16_Witness ==
    /\ renewOutcome = "fail"
    /\ renewPc = "checkNext"
    /\ t0 = 1900
    /\ now = 2400

\* C17 (as claimed) - every registration succeeding and taking less than 300
\* seconds, the attestation is valid in every state after the first pass,
\* and still valid at the moment each renewal completes (it did not lapse
\* while the renewal was under way), whatever the validity window and the
\* age of the attestation at start.
C17_NeverLapses ==
    /\ [](attestPass = "ok" => now < t0 + validSecs)
    /\ [][(renewPc = "register" /\ renewPc' = "checkNext")
            => now' < t0 + validSecs]_vars

\* the validity window is longer than the margin, and an attestation from
\* before the start (at 2000) had at least 300 seconds left then
MarginCovered ==
    /\ validSecs > 300
    /\ t0 < 2000 => t0 + validSecs >= 2000 + 300

\* C17 (amended) - the same, for a validity window longer than the 300
\* seconds of the margin and an operator that starts either with no valid
\* attestation (the first pass registers) or with one that has at least 300
\* seconds left; a sleep's overshoot and the registration after it take
\* less than 300 seconds together.
C17_NoLapseWithMargin ==
    /\ [](attestPass = "ok" /\ MarginCovered => now < t0 + validSecs)
    /\ [][(renewPc = "register" /\ renewPc' = "checkNext" /\ MarginCovered)
            => now' < t0 + validSecs]_vars

C17_Witness ==
    /\ validSecs = 1000
    /\ renewOutcome = "ok"
    /\ wakeAt = 2600
    /\ now = 2800
    /\ t0 = 2800

\* a step of the renewal goroutine: it is running before and after the step
\* and its position, its wake-up time or its last outcome changes
RenewalStep ==
    /\ renewPc # "off"
    /\ renewPc' # "off"
    /\ renewVars' # renewVars

\* C18 - Loop independence. The renewal task is started by Start's
\* RegisterAttestationReport and only there, so once per Start, and it runs
\* from then on while the process does; a step of it changes neither the
\* offset file nor anything of the tracer, and whatever its position (asleep
\* included) the next log of the window can be dispatched; the offset file
\* changes only in the tracer's end-of-window step; the cancellation that ends the tracer
\* leaves the renewal task as it is, and its next step can still be taken.
C18_LoopIndependence ==
    /\ [][(renewPc = "off" /\ renewPc' # "off")
            => /\ startPc = "RegisterAttestationReport"
               /\ startPc' = "Run"
               /\ renewPc' = "checkNext"]_vars
    /\ []((variant = "full" /\ startPc \in {"Run", "running", "returned"})
            <=> renewPc # "off")
    /\ [][RenewalStep
            => UNCHANGED <<fileVars, tracerVars, startVars, chainVars>>]_vars
    /\ []((tracerPc = "dispatch" /\ queue # <<>>) => ENABLED Dispatch)
    /\ [][(offset' # offset \/ saved' # saved)
            => /\ tracerPc = "dispatch" /\ queue = <<>> /\ tracerPc' = "poll"
               /\ UNCHANGED renewVars]_vars
    /\ [][(startPc = "running" /\ startPc' = "returned")
            => tracerPc' = "stopped" /\ UNCHANGED renewVars]_vars
    /\ []((startPc = "returned" /\ renewPc = "checkNext") => ENABLED RenewCheckNext)
    /\ []((startPc = "returned" /\ renewPc = "register") => ENABLED RenewRegister)

C18_Witness ==
    /\ startPc = "returned"
    /\ tracerPc = "stopped"
    /\ saved = 155
    /\ renewPc = "checkNext"
    /\ renewOutcome = "ok"
    /\ t0 = now
    /\ now > 2000

\* C19 - Checkpoint record round-trip. Whatever the offset file held, after
\* SaveBlock(n) returned nil GetBlock returns n and no error.
C19_RecordRoundTrip ==
    [][ /\ ~GetBlock(offset').err
        /\ GetBlock(offset').block = saved' ]_vars

\* C20 - Mode consistency at startup. When cfg.Config.Simulation differs from
\* the verifier's Simulation(), Start fails at its first call: no attestation
\* report is submitted, the renewal goroutine is not spawned and no log is
\* dispatched; so the tracer and the renewal goroutine run only with the two
\* modes equal.
C20_ModeConsistency ==
    /\ [](variant = "full" /\ chainSim # simulation =>
            /\ startPc \in {"Simulation", "failed"}
            /\ attestPass = "none"
            /\ coordReg = "none"
            /\ renewPc = "off"
            /\ ~Running
            /\ \A l \in ChainLogs : calls[l] = 0 /\ sent[l] = 0)
    /\ [](variant = "full" /\ (Running \/ renewPc # "off") =>
            chainSim = simulation)
    /\ [][variant = "full" /\ chainSim # simulation =>
            t0' = t0 /\ offset' = offset]_vars

C20_Witness ==
    /\ variant = "full"
    /\ chainSim # simulation
    /\ startPc = "failed"
    /\ restarts = 1

====
